---- MODULE Spec2Model ----
(***************************************************************************)
(* A model of the s-expression decoder of ch12/ex10 (package sexpr):       *)
(* Unmarshal, Decoder.Decode, Decoder.Token, the lexer, read, readList,    *)
(* asType and endList.  The text/scanner is the external collaborator: it  *)
(* is modelled as the sequence of tokens it hands out, each with its kind  *)
(* and its raw text (a sequence of one-character strings).                 *)
(***************************************************************************)
EXTENDS Integers, Sequences, FiniteSets, TLC

\* ------------------------------------------------------------------ bounds

\* Most elements in an input list (sequence elements, record or map entries).
MaxElems == 2

\* Most values written one after the other in the stream given to a Decoder.
MaxStream == 2

\* ------------------------------------------------------------- characters

Digits == <<"0", "1", "2", "3", "4", "5", "6", "7", "8", "9">>

DigitChars == {Digits[i] : i \in 1..10}

DigitVal(c) == (CHOOSE i \in 1..10 : Digits[i] = c) - 1

Quote == "\""

\* s[lo:hi] of Go, on a 1-based sequence, for 0 <= lo <= hi <= len(s).
Slice(s, lo, hi) == SubSeq(s, lo + 1, hi)

\* strings.IndexRune: the 0-based index of the first c in s, or -1.
IndexRune(s, c) ==
    IF \E i \in 1..Len(s) : s[i] = c
    THEN (CHOOSE i \in 1..Len(s) : s[i] = c /\ \A j \in 1..(i - 1) : s[j] # c) - 1
    ELSE -1

HasPrefix(s, p) == Len(s) >= Len(p) /\ SubSeq(s, 1, Len(p)) = p

\* -------------------------------------------------------------- conversions

RECURSIVE DigitsValue(_)
\* The base-10 value of a non-empty sequence of digit characters.
DigitsValue(s) ==
    IF Len(s) = 0 THEN 0
    ELSE 10 * DigitsValue(SubSeq(s, 1, Len(s) - 1)) + DigitVal(s[Len(s)])

AllDigits(s) == Len(s) > 0 /\ \A i \in 1..Len(s) : s[i] \in DigitChars

\* strconv.Atoi with its error dropped (i, _ := strconv.Atoi(text)): an optional
\* sign and decimal digits give the number, anything else gives 0.
Atoi(s) ==
    IF AllDigits(s) THEN DigitsValue(s)
    ELSE IF Len(s) > 1 /\ s[1] = "-" /\ AllDigits(Tail(s)) THEN 0 - DigitsValue(Tail(s))
    ELSE IF Len(s) > 1 /\ s[1] = "+" /\ AllDigits(Tail(s)) THEN DigitsValue(Tail(s))
    ELSE 0

\* strconv.Unquote with its error dropped: the text between two double quotes;
\* a text that is not a quoted literal gives the empty string.  The streams of
\* this model hold no escape sequence.
Unquote(s) ==
    IF Len(s) >= 2 /\ s[1] = Quote /\ s[Len(s)] = Quote
       /\ \A i \in 2..(Len(s) - 1) : s[i] \notin {Quote, "\\"}
    THEN SubSeq(s, 2, Len(s) - 1)
    ELSE <<>>

RECURSIVE Pow10(_)
Pow10(n) == IF n = 0 THEN 1 ELSE 10 * Pow10(n - 1)

\* strconv.ParseFloat with its error dropped, on a decimal literal d.d: the
\* value as a fraction num/den; anything else gives 0.
ParseFloat(s) ==
    LET dot == IndexRune(s, ".")
    IN  IF dot > 0 /\ AllDigits(Slice(s, 0, dot))
           /\ (dot + 1 = Len(s) \/ AllDigits(Slice(s, dot + 1, Len(s))))
        THEN [num |-> DigitsValue(Slice(s, 0, dot) \o Slice(s, dot + 1, Len(s))),
              den |-> Pow10(Len(s) - dot - 1)]
        ELSE IF AllDigits(s) THEN [num |-> DigitsValue(s), den |-> 1]
        ELSE [num |-> 0, den |-> 1]

\* ------------------------------------------------------------ shapes (types)

IntT == [k |-> "int"]
UintT == [k |-> "uint"]
FloatT == [k |-> "float"]
BoolT == [k |-> "bool"]
StringT == [k |-> "string"]
IfaceT == [k |-> "iface"]
\* The type of the zero reflect.Value (what FieldByName gives for no field).
InvalidT == [k |-> "invalid"]

ArrayOf(n, e) == [k |-> "array", n |-> n, elem |-> e]
SliceOf(e) == [k |-> "slice", elem |-> e]
MapOf(key, e) == [k |-> "map", key |-> key, elem |-> e]
\* names: the field names in declaration order; ftype: the type of each.
StructOf(names, ftype) == [k |-> "struct", names |-> names, ftype |-> ftype]

ScalarKinds == {"int", "uint", "float", "bool", "string"}

ListKinds == {"array", "slice", "struct", "map", "iface"}

\* The value of no interface: a nil interface{}.
NilIface == [dtyp |-> InvalidT, dval |-> 0]

EmptyMap == [x \in {} |-> 0]

RECURSIVE Zero(_)
\* reflect.Zero: the zero value of a shape.  A nil slice and an empty one are
\* both the empty sequence, a nil map and an empty one both the empty function.
Zero(T) ==
    CASE T.k \in {"int", "uint"} -> 0
      [] T.k = "float" -> [num |-> 0, den |-> 1]
      [] T.k = "bool" -> FALSE
      [] T.k = "string" -> <<>>
      [] T.k = "array" -> [i \in 1..T.n |-> Zero(T.elem)]
      [] T.k = "slice" -> <<>>
      [] T.k = "struct" -> [f \in {T.names[i] : i \in 1..Len(T.names)} |-> Zero(T.ftype[f])]
      [] T.k = "map" -> EmptyMap
      [] OTHER -> NilIface

RECURSIVE Comparable(_)
\* Whether reflect.MapOf takes the shape as a key type.
Comparable(T) ==
    CASE T.k \in {"slice", "map"} -> FALSE
      [] T.k = "array" -> Comparable(T.elem)
      [] OTHER -> TRUE

\* ------------------------------------------------------------------ tokens

\* The token kinds of text/scanner the decoder tells apart; "Other" is every
\* other raw token (a char literal, a raw string, any other punctuation).
LP == [kind |-> "(", text |-> <<"(">>]
RP == [kind |-> ")", text |-> <<")">>]
EOFTok == [kind |-> "EOF", text |-> <<>>]
\* lexer.token before the first call of next (the zero rune).
NoTok == [kind |-> "none", text |-> <<>>]
Ident(s) == [kind |-> "Ident", text |-> s]
IntTok(s) == [kind |-> "Int", text |-> s]
FloatTok(s) == [kind |-> "Float", text |-> s]
StrTok(body) == [kind |-> "String", text |-> <<Quote>> \o body \o <<Quote>>]
OtherTok(s) == [kind |-> "Other", text |-> s]

\* ------------------------------------------------------------------- lexer

\* The lexer over the token stream toks is the number pos of tokens scanned so
\* far: lex.token is toks[pos], the zero rune before the first scan and EOF
\* once the stream is exhausted (scanner.Scan keeps returning EOF).
token(toks, pos) ==
    IF pos = 0 THEN NoTok
    ELSE IF pos <= Len(toks) THEN toks[pos]
    ELSE EOFTok

\* lexer.next: lex.token = lex.scan.Scan().
next(toks, pos) == IF pos <= Len(toks) THEN pos + 1 ELSE pos

\* lexer.text: the raw text of the current token.
text(toks, pos) == token(toks, pos).text

\* ----------------------------------------------------------- type reifier

D_int == <<"i", "n", "t">>
D_uint == <<"u", "i", "n", "t">>
D_float == <<"f", "l", "o", "a", "t">>
D_bool == <<"b", "o", "o", "l">>
D_string == <<"s", "t", "r", "i", "n", "g">>
D_map == <<"m", "a", "p">>

atomTypes ==
    [d \in {D_int, D_uint, D_float, D_bool, D_string} |->
        CASE d = D_int -> IntT
          [] d = D_uint -> UintT
          [] d = D_float -> FloatT
          [] d = D_bool -> BoolT
          [] OTHER -> StringT]

\* A result of asType: the shape, or ok = FALSE when asType panics.
NoType == [ok |-> FALSE, t |-> InvalidT]

RECURSIVE asType(_)
asType(typ) ==
    IF typ \in DOMAIN atomTypes THEN [ok |-> TRUE, t |-> atomTypes[typ]]
    ELSE IF HasPrefix(typ, <<"[", "]">>) THEN
        LET e == asType(Slice(typ, 2, Len(typ)))
        IN  IF e.ok THEN [ok |-> TRUE, t |-> SliceOf(e.t)] ELSE NoType
    \* typ[0] of the empty string: index out of range
    ELSE IF Len(typ) = 0 THEN NoType
    ELSE IF typ[1] = "[" THEN
        LET j == IndexRune(typ, "]")
        IN  \* typ[1:j] with j = -1: slice bounds out of range
            IF j < 1 THEN NoType
            ELSE LET count == Atoi(Slice(typ, 1, j))
                     e == asType(Slice(typ, j + 1, Len(typ)))
                 IN  \* reflect.ArrayOf panics on a negative length
                     IF e.ok /\ count >= 0 THEN [ok |-> TRUE, t |-> ArrayOf(count, e.t)]
                     ELSE NoType
    ELSE IF HasPrefix(typ, D_map) THEN
        LET i == IndexRune(typ, "[")
            j == IndexRune(typ, "]")
        IN  \* typ[i+1:j] with j < i+1: slice bounds out of range
            IF j < i + 1 THEN NoType
            ELSE LET key == asType(Slice(typ, i + 1, j))
                     e == asType(Slice(typ, j + 1, Len(typ)))
                 IN  \* reflect.MapOf panics on a key type that is not comparable
                     IF key.ok /\ e.ok /\ Comparable(key.t)
                     THEN [ok |-> TRUE, t |-> MapOf(key.t, e.t)]
                     ELSE NoType
    ELSE NoType

\* -------------------------------------------------------- structural reader

\* What a call of read or readList leaves behind: the lexer position pos, the
\* number w of writes made through reflection so far, the destination's value
\* val, and the panic it raised ("" for a normal return) with the lexer
\* position (at) and the write count (wat) at the moment it was raised.
Ret(pos, w, val) ==
    [pos |-> pos, w |-> w, val |-> val, panic |-> "", at |-> 0, wat |-> 0]

Raise(pos, w, val, msg) ==
    [pos |-> pos, w |-> w, val |-> val, panic |-> msg, at |-> pos, wat |-> w]

\* A panic passing through a caller whose destination holds val.
Unwind(r, val) == [r EXCEPT !.val = val]

\* An endList that takes the end of the input for the end of the list.
endListLax(toks, pos) ==
    CASE token(toks, pos).kind \in {"EOF", ")"} -> "end"
      [] OTHER -> "more"

\* endList: "eof" for the panic at the end of the input, "end" at a ')',
\* "more" otherwise.
endList(toks, pos) ==
    CASE token(toks, pos).kind = "EOF" -> "eof"
      [] token(toks, pos).kind = ")" -> "end"
      [] OTHER -> "more"

\* lexer.consume: the position after the wanted token, or ok = FALSE for the
\* panic "got .., want ..".
consume(toks, pos, want) ==
    IF token(toks, pos).kind # want
    THEN [ok |-> FALSE, pos |-> pos]
    ELSE [ok |-> TRUE, pos |-> next(toks, pos)]

\* reflect.Value.FieldByName: the field's type, or the zero Value's.
FieldByName(T, name) ==
    IF \E i \in 1..Len(T.names) : T.names[i] = name THEN T.ftype[name] ELSE InvalidT

\* A map insertion that keeps the value a key already has.
SetMapIndexFirst(m, key, value) ==
    [x \in (DOMAIN m) \cup {key} |-> IF x \in DOMAIN m THEN m[x] ELSE value]

\* reflect.Value.SetMapIndex: insert or overwrite by key.
SetMapIndex(m, key, value) ==
    [x \in (DOMAIN m) \cup {key} |-> IF x = key THEN value ELSE m[x]]

T_nil == <<"n", "i", "l">>
T_t == <<"t">>

RECURSIVE read(_, _, _, _, _)
RECURSIVE readList(_, _, _, _, _)
RECURSIVE readArray(_, _, _, _, _, _)
RECURSIVE readSlice(_, _, _, _, _)
RECURSIVE readStruct(_, _, _, _, _)
RECURSIVE readMap(_, _, _, _, _)
RECURSIVE readInterface(_, _, _, _, _)
RECURSIVE readField(_, _, _, _, _)
RECURSIVE readEntry(_, _, _, _, _)

\* A setter that also converts: SetInt into any numeric kind.
CanSetNumeric(setter, T) ==
    CASE setter = "Set" -> T.k # "invalid"
      [] setter = "SetBool" -> T.k = "bool"
      [] setter = "SetString" -> T.k = "string"
      [] setter = "SetInt" -> T.k \in {"int", "uint", "float"}
      [] OTHER -> T.k = "float"

\* Whether a setter of reflect.Value takes a destination of shape T; it panics
\* otherwise.  Each typed setter takes one kind, and every call on the zero
\* Value panics.
CanSet(setter, T) ==
    CASE setter = "Set" -> T.k # "invalid"
      [] setter = "SetBool" -> T.k = "bool"
      [] setter = "SetString" -> T.k = "string"
      [] setter = "SetInt" -> T.k = "int"
      [] OTHER -> T.k = "float"

\* A read that steps over an identifier it does not know.
readIdentLax(toks, pos, w, T, v) ==
    CASE text(toks, pos) = T_nil ->
            IF CanSet("Set", T) THEN Ret(next(toks, pos), w + 1, Zero(T))
            ELSE Raise(pos, w, v, "reflect")
      [] text(toks, pos) = T_t ->
            IF CanSet("SetBool", T) THEN Ret(next(toks, pos), w + 1, TRUE)
            ELSE Raise(pos, w, v, "reflect")
      [] OTHER -> Ret(next(toks, pos), w, v)

\* read, case scanner.Ident: nil, t, or the fall out of the switch to the
\* panic at the end of read.
readIdent(toks, pos, w, T, v) ==
    CASE text(toks, pos) = T_nil ->
            IF CanSet("Set", T) THEN Ret(next(toks, pos), w + 1, Zero(T))
            ELSE Raise(pos, w, v, "reflect")
      [] text(toks, pos) = T_t ->
            IF CanSet("SetBool", T) THEN Ret(next(toks, pos), w + 1, TRUE)
            ELSE Raise(pos, w, v, "reflect")
      [] OTHER -> Raise(pos, w, v, "unexpected token")

\* read, the atoms: one token sets the destination through the setter of its
\* kind, or panics.
readAtom(toks, pos, w, T, v) ==
    CASE token(toks, pos).kind = "Ident" -> readIdent(toks, pos, w, T, v)
      [] token(toks, pos).kind = "String" ->
            IF CanSet("SetString", T)
            THEN Ret(next(toks, pos), w + 1, Unquote(text(toks, pos)))
            ELSE Raise(pos, w, v, "reflect")
      [] token(toks, pos).kind = "Int" ->
            IF CanSet("SetInt", T) THEN Ret(next(toks, pos), w + 1, Atoi(text(toks, pos)))
            ELSE Raise(pos, w, v, "reflect")
      [] token(toks, pos).kind = "Float" ->
            IF CanSet("SetFloat", T)
            THEN Ret(next(toks, pos), w + 1, ParseFloat(text(toks, pos)))
            ELSE Raise(pos, w, v, "reflect")
      [] OTHER -> Raise(pos, w, v, "unexpected token")

\* read, case '(', after readList has returned r: lex.next().
closeList(toks, r) ==
    IF r.panic # "" THEN r ELSE Ret(next(toks, r.pos), r.w, r.val)

read(toks, pos, w, T, v) ==
    IF token(toks, pos).kind = "("
    THEN closeList(toks, readList(toks, next(toks, pos), w, T, v))
    ELSE readAtom(toks, pos, w, T, v)

\* The array loop after read(lex, v.Index(i)) has returned r.
arrayItem(toks, T, v, i, r) ==
    IF r.panic # "" THEN Unwind(r, [v EXCEPT ![i + 1] = r.val])
    ELSE readArray(toks, r.pos, r.w, T, [v EXCEPT ![i + 1] = r.val], i + 1)

\* An array loop that stops without a word at the first element too many.
readArrayLax(toks, pos, w, T, v, i) ==
    CASE endList(toks, pos) = "eof" -> Raise(pos, w, v, "end of file")
      [] endList(toks, pos) = "end" -> Ret(pos, w, v)
      [] endList(toks, pos) = "more" /\ i >= T.n -> Ret(pos, w, v)
      [] OTHER -> arrayItem(toks, T, v, i, read(toks, pos, w, T.elem, v[i + 1]))

\* readList, case reflect.Array: for i := 0; !endList(lex); i++.
readArray(toks, pos, w, T, v, i) ==
    CASE endList(toks, pos) = "eof" -> Raise(pos, w, v, "end of file")
      [] endList(toks, pos) = "end" -> Ret(pos, w, v)
      \* v.Index(i) panics when i is out of range
      [] endList(toks, pos) = "more" /\ i >= T.n -> Raise(pos, w, v, "index out of range")
      [] OTHER -> arrayItem(toks, T, v, i, read(toks, pos, w, T.elem, v[i + 1]))

\* A slice loop that scans past the offending token when an item panics.
sliceItemResync(toks, T, v, r) ==
    IF r.panic # "" THEN [Unwind(r, v) EXCEPT !.pos = next(toks, r.pos)]
    ELSE readSlice(toks, r.pos, r.w + 1, T, Append(v, r.val))

\* The slice loop after read(lex, item) has returned r: v.Set(Append(v, item)).
sliceItem(toks, T, v, r) ==
    IF r.panic # "" THEN Unwind(r, v)
    ELSE readSlice(toks, r.pos, r.w + 1, T, Append(v, r.val))

\* readList, case reflect.Slice: each item is read into a fresh element.
readSlice(toks, pos, w, T, v) ==
    CASE endList(toks, pos) = "eof" -> Raise(pos, w, v, "end of file")
      [] endList(toks, pos) = "end" -> Ret(pos, w, v)
      [] OTHER -> sliceItem(toks, T, v, read(toks, pos, w, T.elem, Zero(T.elem)))

\* The destination of a record entry named name: the field's current value
\* (the zero Value has none).
fieldOf(T, v, name) == IF FieldByName(T, name).k = "invalid" THEN 0 ELSE v[name]

\* A record rebuilt from its zero value for each entry.
withFieldReset(T, v, name, x) ==
    IF FieldByName(T, name).k = "invalid" THEN v ELSE [Zero(T) EXCEPT ![name] = x]

\* The record after its field name was left holding x.
withField(T, v, name, x) ==
    IF FieldByName(T, name).k = "invalid" THEN v ELSE [v EXCEPT ![name] = x]

\* A record entry after read(lex, v.FieldByName(name)) has returned r:
\* lex.consume(')').
fieldValue(toks, T, v, name, r) ==
    IF r.panic # "" THEN Unwind(r, withField(T, v, name, r.val))
    ELSE IF ~consume(toks, r.pos, ")").ok
         THEN Raise(r.pos, r.w, withField(T, v, name, r.val), "got, want")
         ELSE Ret(consume(toks, r.pos, ")").pos, r.w, withField(T, v, name, r.val))

\* A record entry whose unknown name is skipped with its value.
fieldNameSkip(toks, pos, w, T, v) ==
    IF token(toks, pos).kind # "Ident" THEN Raise(pos, w, v, "want field name")
    ELSE fieldValue(toks, T, v, text(toks, pos),
                    read(toks, next(toks, pos), w,
                         IF FieldByName(T, text(toks, pos)).k = "invalid" THEN IntT
                         ELSE FieldByName(T, text(toks, pos)),
                         fieldOf(T, v, text(toks, pos))))

\* A record entry after lex.consume('(') has left the lexer at pos.
fieldName(toks, pos, w, T, v) ==
    IF token(toks, pos).kind # "Ident" THEN Raise(pos, w, v, "want field name")
    ELSE fieldValue(toks, T, v, text(toks, pos),
                    read(toks, next(toks, pos), w, FieldByName(T, text(toks, pos)),
                         fieldOf(T, v, text(toks, pos))))

\* One "(name value)" entry of a record, after endList said there is one.
readField(toks, pos, w, T, v) ==
    IF ~consume(toks, pos, "(").ok THEN Raise(pos, w, v, "got, want")
    ELSE fieldName(toks, consume(toks, pos, "(").pos, w, T, v)

\* The record loop after one entry has returned r.
structEntry(toks, T, r) ==
    IF r.panic # "" THEN r ELSE readStruct(toks, r.pos, r.w, T, r.val)

\* readList, case reflect.Struct.
readStruct(toks, pos, w, T, v) ==
    CASE endList(toks, pos) = "eof" -> Raise(pos, w, v, "end of file")
      [] endList(toks, pos) = "end" -> Ret(pos, w, v)
      [] OTHER -> structEntry(toks, T, readField(toks, pos, w, T, v))

\* A map entry after read(lex, value) has returned vr, the key being key:
\* v.SetMapIndex(key, value), lex.consume(')').
entryValue(toks, v, key, vr) ==
    IF vr.panic # "" THEN Unwind(vr, v)
    ELSE IF ~consume(toks, vr.pos, ")").ok
         THEN Raise(vr.pos, vr.w + 1, SetMapIndex(v, key, vr.val), "got, want")
         ELSE Ret(consume(toks, vr.pos, ")").pos, vr.w + 1, SetMapIndex(v, key, vr.val))

\* A map entry after read(lex, key) has returned kr.
entryKey(toks, T, v, kr) ==
    IF kr.panic # "" THEN Unwind(kr, v)
    ELSE entryValue(toks, v, kr.val, read(toks, kr.pos, kr.w, T.elem, Zero(T.elem)))

\* One "(key value)" entry of a map, after endList said there is one.
readEntry(toks, pos, w, T, v) ==
    IF ~consume(toks, pos, "(").ok THEN Raise(pos, w, v, "got, want")
    ELSE entryKey(toks, T, v, read(toks, consume(toks, pos, "(").pos, w, T.key, Zero(T.key)))

\* The map loop after one entry has returned r.
mapEntry(toks, T, r) ==
    IF r.panic # "" THEN r ELSE readMap(toks, r.pos, r.w, T, r.val)

\* readList, case reflect.Map: the loop, after v.Set(reflect.MakeMap(..)).
readMap(toks, pos, w, T, v) ==
    CASE endList(toks, pos) = "eof" -> Raise(pos, w, v, "end of file")
      [] endList(toks, pos) = "end" -> Ret(pos, w, v)
      [] OTHER -> mapEntry(toks, T, readEntry(toks, pos, w, T, v))

\* A dynamic slot that stores the value read so far when the read panics.
ifaceValueEager(v, D, r) ==
    IF r.panic # "" THEN Unwind(r, [dtyp |-> D, dval |-> r.val])
    ELSE Ret(r.pos, r.w + 1, [dtyp |-> D, dval |-> r.val])

\* The dynamic slot after read(lex, value) has returned r, value being of
\* shape D: v.Set(value).
ifaceValue(v, D, r) ==
    IF r.panic # "" THEN Unwind(r, v)
    ELSE Ret(r.pos, r.w + 1, [dtyp |-> D, dval |-> r.val])

\* The dynamic slot after asType has returned typ.
ifaceType(toks, pos, w, v, typ) ==
    IF ~typ.ok THEN Raise(pos, w, v, "asType")
    ELSE ifaceValue(v, typ.t, read(toks, next(toks, pos), w, typ.t, Zero(typ.t)))

\* readList, case reflect.Interface: the current token's text, whatever its
\* kind, is unquoted into a type descriptor; the value is read into a fresh
\* value of that type and then stored in v.
readInterface(toks, pos, w, T, v) ==
    ifaceType(toks, pos, w, v, asType(Unquote(text(toks, pos))))

readList(toks, pos, w, T, v) ==
    CASE T.k = "array" -> readArray(toks, pos, w, T, v, 0)
      [] T.k = "slice" -> readSlice(toks, pos, w, T, v)
      [] T.k = "struct" -> readStruct(toks, pos, w, T, v)
      [] T.k = "map" -> readMap(toks, pos, w + 1, T, EmptyMap)
      [] T.k = "iface" -> readInterface(toks, pos, w, T, v)
      [] OTHER -> Raise(pos, w, v, "cannot decode list")

\* ---------------------------------------------------------------- the API

NoError == [msg |-> "", position |-> 0]

\* What a decode call hands back and leaves behind: the lexer position, the
\* destination, the returned error, and the panic recovered on the way.
Returned(r) ==
    [pos |-> r.pos, out |-> r.val, w |-> r.w,
     \* recover: err = fmt.Errorf("error at %s: %v", lex.scan.Position, x)
     err |-> IF r.panic # "" THEN [msg |-> r.panic, position |-> r.pos] ELSE NoError,
     panic |-> r.panic, at |-> r.at, wat |-> r.wat]

\* Unmarshal: a fresh lexer, primed by one next, then read into out.
UnmarshalOp(toks, T, v) == Returned(read(toks, next(toks, 0), 0, T, v))

\* Decoder.Decode on the decoder's lexer at pos: one next, then read into v.
DecodeOp(toks, pos, T, v) == Returned(read(toks, next(toks, pos), 0, T, v))

NoToken == [variant |-> "nil", value |-> 0]

\* Decoder.Token, the switch on the current token: the token as a Token
\* value, the error "EOF" at the end of the stream, or the panic "unexpected
\* token", which nothing in Token recovers.
tokenValue(toks, p) ==
    CASE token(toks, p).kind = "Ident" ->
            [pos |-> p, tok |-> [variant |-> "Symbol", value |-> text(toks, p)],
             err |-> NoError, panic |-> ""]
      [] token(toks, p).kind = "String" ->
            [pos |-> p, tok |-> [variant |-> "String", value |-> Unquote(text(toks, p))],
             err |-> NoError, panic |-> ""]
      [] token(toks, p).kind = "Int" ->
            [pos |-> p, tok |-> [variant |-> "Int", value |-> Atoi(text(toks, p))],
             err |-> NoError, panic |-> ""]
      [] token(toks, p).kind = "(" ->
            [pos |-> p, tok |-> [variant |-> "StartList", value |-> 0],
             err |-> NoError, panic |-> ""]
      [] token(toks, p).kind = ")" ->
            [pos |-> p, tok |-> [variant |-> "EndList", value |-> 0],
             err |-> NoError, panic |-> ""]
      [] token(toks, p).kind = "EOF" ->
            [pos |-> p, tok |-> NoToken,
             err |-> [msg |-> "EOF", position |-> p], panic |-> ""]
      [] OTHER ->
            [pos |-> p, tok |-> NoToken, err |-> NoError, panic |-> "unexpected token"]

\* A Token that scans twice before it looks at the current token.
TokenOpTwice(toks, pos) == tokenValue(toks, next(toks, next(toks, pos)))

\* Decoder.Token on the decoder's lexer at pos: d.lex.next(), then the switch.
TokenOp(toks, pos) == tokenValue(toks, next(toks, pos))

\* ------------------------------------------------------------- the inputs
\* The destinations and token streams the operations are run on.  A stream is
\* the encoding of one or more source values, possibly damaged at one place.

\* The length of the fixed array under test: one less than the longest input
\* list, so that lists shorter than, as long as and longer than it all occur.
ArrLen == MaxElems - 1

F_X == <<"X">>
F_Y == <<"Y">>
F_Z == <<"Z">>

\* struct { X int; Y int }
PointT == StructOf(<<F_X, F_Y>>, [f \in {F_X, F_Y} |-> IntT])

\* The declared shapes of the destinations, the dynamic slot apart.
StaticTypes ==
    {IntT, UintT, FloatT, BoolT, StringT, ArrayOf(ArrLen, IntT), SliceOf(IntT),
     PointT, MapOf(StringT, IntT)}

\* The shapes a dynamic slot is asked to hold.
DynTypes ==
    {IntT, UintT, FloatT, BoolT, StringT, ArrayOf(ArrLen, IntT), SliceOf(IntT),
     MapOf(StringT, IntT)}

IntSrc == {7, 42}
StringSrc == {<<"a">>, <<"b">>}
FloatSrc == {[num |-> 15, den |-> 10]}

SeqsUpTo(S, n) == UNION {[1..k -> S] : k \in 0..n}

RECURSIVE Src(_)
\* The source values of a shape: a list is the sequence of its elements, a
\* record the sequence of its (name, value) entries, a map the sequence of its
\* (key, value) entries.  A source of a dynamic slot is [dtyp |-> D, s |-> a
\* source of D], for D in DynTypes.
Src(T) ==
    CASE T.k = "int" -> IntSrc
      [] T.k = "uint" -> {7}
      [] T.k = "float" -> FloatSrc
      [] T.k = "bool" -> BOOLEAN
      [] T.k = "string" -> StringSrc
      [] T.k \in {"array", "slice"} -> SeqsUpTo(Src(T.elem), MaxElems)
      [] T.k = "struct" ->
            SeqsUpTo(UNION {[name : {T.names[i]}, s : Src(T.ftype[T.names[i]])] :
                              i \in 1..Len(T.names)}, MaxElems)
      [] T.k = "map" -> SeqsUpTo([key : Src(T.key), s : Src(T.elem)], MaxElems)

\* The decimal text of a number below 100.
Itoa(n) == IF n < 10 THEN <<Digits[n + 1]>> ELSE <<Digits[(n \div 10) + 1], Digits[(n % 10) + 1]>>

RECURSIVE Desc(_)
\* The type descriptor of a shape, in the grammar asType reads.
Desc(T) ==
    CASE T.k = "int" -> D_int
      [] T.k = "uint" -> D_uint
      [] T.k = "float" -> D_float
      [] T.k = "bool" -> D_bool
      [] T.k = "string" -> D_string
      [] T.k = "slice" -> <<"[", "]">> \o Desc(T.elem)
      [] T.k = "array" -> <<"[">> \o Itoa(T.n) \o <<"]">> \o Desc(T.elem)
      [] T.k = "map" -> D_map \o <<"[">> \o Desc(T.key) \o <<"]">> \o Desc(T.elem)

RECURSIVE Enc(_, _)
RECURSIVE EncAll(_, _)
RECURSIVE EncFields(_, _)
RECURSIVE EncEntries(_, _)
\* The encoding of a source value of shape T: its tokens.
Enc(T, s) ==
    CASE T.k \in {"int", "uint"} -> <<IntTok(Itoa(s))>>
      [] T.k = "float" -> <<FloatTok(<<"1", ".", "5">>)>>
      [] T.k = "bool" -> IF s THEN <<Ident(T_t)>> ELSE <<Ident(T_nil)>>
      [] T.k = "string" -> <<StrTok(s)>>
      [] T.k \in {"array", "slice"} -> <<LP>> \o EncAll(T.elem, s) \o <<RP>>
      [] T.k = "struct" -> <<LP>> \o EncFields(T, s) \o <<RP>>
      [] T.k = "map" -> <<LP>> \o EncEntries(T, s) \o <<RP>>
      [] OTHER -> <<LP, StrTok(Desc(s.dtyp))>> \o Enc(s.dtyp, s.s) \o <<RP>>

EncAll(T, ss) ==
    IF Len(ss) = 0 THEN <<>> ELSE Enc(T, Head(ss)) \o EncAll(T, Tail(ss))

EncFields(T, es) ==
    IF Len(es) = 0 THEN <<>>
    ELSE <<LP, Ident(Head(es).name)>> \o Enc(T.ftype[Head(es).name], Head(es).s) \o <<RP>>
         \o EncFields(T, Tail(es))

EncEntries(T, es) ==
    IF Len(es) = 0 THEN <<>>
    ELSE <<LP>> \o Enc(T.key, Head(es).key) \o Enc(T.elem, Head(es).s) \o <<RP>>
         \o EncEntries(T, Tail(es))

\* The tokens put in the place of one token of a stream to damage it.
Junk ==
    {LP, RP, Ident(F_Z), Ident(T_nil), IntTok(<<"7">>), StrTok(<<"a">>),
     FloatTok(<<"1", ".", "5">>), OtherTok(<<"-">>)}

ReplaceAt(toks, i, tk) == [toks EXCEPT ![i] = tk]

\* The token put between two tokens of a stream as one value too many.
Extra == IntTok(<<"7">>)

InsertAt(toks, i, tk) == SubSeq(toks, 1, i - 1) \o <<tk>> \o SubSeq(toks, i, Len(toks))

\* The damages of a stream: none, cut after i tokens, token i replaced, a
\* token put in before token i.
Muts(toks) ==
    {[kind |-> "none", i |-> 0, tk |-> NoTok]}
    \cup {[kind |-> "cut", i |-> i, tk |-> NoTok] : i \in 0..(Len(toks) - 1)}
    \cup {[kind |-> "replace", i |-> i, tk |-> tk] : i \in 1..Len(toks), tk \in Junk}
    \cup {[kind |-> "insert", i |-> i, tk |-> Extra] : i \in 2..Len(toks)}

Damage(toks, m) ==
    CASE m.kind = "cut" -> SubSeq(toks, 1, m.i)
      [] m.kind = "replace" -> ReplaceAt(toks, m.i, m.tk)
      [] m.kind = "insert" -> InsertAt(toks, m.i, m.tk)
      [] OTHER -> toks

F_S == <<"S">>
F_A == <<"A">>
F_M == <<"M">>

\* struct { S []int; A [ArrLen]int; M map[string]int }
BagT ==
    StructOf(<<F_S, F_A, F_M>>,
             [f \in {F_S, F_A, F_M} |->
                CASE f = F_S -> SliceOf(IntT)
                  [] f = F_A -> ArrayOf(ArrLen, IntT)
                  [] OTHER -> MapOf(StringT, IntT)])

\* The sources of the field f of a record of shape T that are lists of at
\* most one element.
ShortSrc(T, f) == {x \in Src(T.ftype[f]) : Len(x) <= 1}

\* The key and element shapes of the maps a dynamic slot is asked to hold
\* empty: a key whose descriptor has brackets of its own among them.
MapKeyTypes == {IntT, StringT, ArrayOf(ArrLen, IntT), ArrayOf(MaxElems, StringT)}

MapElemTypes == {IntT, StringT, SliceOf(IntT), MapOf(StringT, IntT)}

\* Descriptors outside the grammar: the empty string, an unknown leaf, a
\* length that is no decimal number, a missing bracket, map alone, and a
\* word that merely starts with map.
BadDescs ==
    {<<>>,
     <<"i", "n">>,
     <<"[", "x", "]", "i", "n", "t">>,
     <<"[", "2", "i", "n", "t">>,
     <<"[", "]">>,
     <<"m", "a", "p">>,
     <<"m", "a", "p", "x", "[", "i", "n", "t", "]", "i", "n", "t">>}

\* The shapes decoded several times over from one stream, and their sources
\* of at most three tokens.
StreamTypes == {IntT, StringT, SliceOf(IntT)}

StreamSrc(T) == {s \in Src(T) : Len(Enc(T, s)) <= 3}

NoMut == [kind |-> "none", i |-> 0, tk |-> NoTok]

\* -------------------------------------------------------- the state machine

VARIABLES
    typ,     \* the declared shape of the destinations
    src,     \* the source values the stream was written from
    mut,     \* the damage done to the stream
    data,    \* the token stream
    pc,      \* "start", "unmarshal" (Unmarshal has returned) or "decoder"
    lex,     \* the lexer's position in data
    before,  \* the destination of the last decode call, before the call
    out,     \* the destination of the last decode call, after it
    err,     \* the error the last call returned
    ret,     \* the last decode call's record (Returned)
    tok,     \* the Token the last call of Token returned
    escaped, \* the panic that left the last call of Token
    nDecode, \* the calls of Decoder.Decode so far
    nToken   \* the calls of Decoder.Token so far

vars ==
    <<typ, src, mut, data, pc, lex, before, out, err, ret, tok, escaped, nDecode, nToken>>

NoRet == Returned(Ret(0, 0, 0))

\* The calls made on a Decoder once its stream is exhausted.
MaxAfter == 2

\* A destination's value before a call: the zero value, or one that holds
\* something already.
RECURSIVE Held(_)
Held(T) ==
    CASE T.k \in {"int", "uint"} -> 9
      [] T.k = "float" -> [num |-> 9, den |-> 1]
      [] T.k = "bool" -> TRUE
      [] T.k = "string" -> <<"z">>
      [] T.k = "array" -> [i \in 1..T.n |-> Held(T.elem)]
      [] T.k = "slice" -> <<Held(T.elem)>>
      [] T.k = "struct" -> [f \in {T.names[i] : i \in 1..Len(T.names)} |-> Held(T.ftype[f])]
      [] T.k = "map" -> [x \in {Held(T.key)} |-> Held(T.elem)]
      [] OTHER -> [dtyp |-> IntT, dval |-> 9]

Priors(T) == {Zero(T), Held(T)}

\* The state before any call: destinations of shape T, and the stream that
\* encodes the sources ss one after the other, damaged by m.
Start(T, ss, m) ==
    /\ typ = T
    /\ src = ss
    /\ mut = m
    /\ data = Damage(EncAll(T, ss), m)
    /\ pc = "start"
    /\ lex = 0
    /\ before = Zero(T)
    /\ out = Zero(T)
    /\ err = NoError
    /\ ret = NoRet
    /\ tok = NoToken
    /\ escaped = ""
    /\ nDecode = 0
    /\ nToken = 0

Init ==
    \/ \E T \in StaticTypes : \E s \in Src(T) : \E m \in Muts(Enc(T, s)) :
            Start(T, <<s>>, m)
    \/ \E D \in DynTypes : \E s \in Src(D) :
            \E m \in Muts(Enc(IfaceT, [dtyp |-> D, s |-> s])) :
                Start(IfaceT, <<[dtyp |-> D, s |-> s]>>, m)
    \/ \E T \in StreamTypes : \E n \in 2..MaxStream : \E ss \in [1..n -> StreamSrc(T)] :
            Start(T, ss, NoMut)
    \/ \E K \in MapKeyTypes, V \in MapElemTypes :
            Start(IfaceT, <<[dtyp |-> MapOf(K, V), s |-> <<>>]>>, NoMut)
    \/ \E d \in BadDescs :
            Start(IfaceT, <<[dtyp |-> SliceOf(IntT), s |-> <<>>]>>,
                  [kind |-> "replace", i |-> 2, tk |-> StrTok(d)])
    \/ \E f \in {F_S, F_A, F_M}, g \in {F_S, F_A, F_M} :
            \E a \in ShortSrc(BagT, f), b \in ShortSrc(BagT, g) :
                Start(BagT, <<<<[name |-> f, s |-> a], [name |-> g, s |-> b]>>>>, NoMut)

\* A decode call on a destination holding v has returned r.
Decoded(v, r) ==
    /\ before' = v
    /\ out' = r.out
    /\ err' = r.err
    /\ ret' = r
    /\ lex' = r.pos

\* Unmarshal(data, &out), out holding v before the call.
Unmarshal ==
    /\ pc = "start"
    /\ \E v \in Priors(typ) : Decoded(v, UnmarshalOp(data, typ, v))
    /\ pc' = "unmarshal"
    /\ UNCHANGED <<typ, src, mut, data, tok, escaped, nDecode, nToken>>

\* NewDecoder(r): a lexer over the stream, nothing scanned yet.
NewDecoder ==
    /\ pc = "start"
    /\ pc' = "decoder"
    /\ lex' = 0
    /\ UNCHANGED <<typ, src, mut, data, before, out, err, ret, tok, escaped, nDecode, nToken>>

MoreCalls == nDecode + nToken < Len(data) + MaxAfter

\* d.Decode(&v), v holding a value of Priors before the call.  A run drives
\* its Decoder with calls of Decode only or with calls of Token only.
Decode ==
    /\ pc = "decoder"
    /\ MoreCalls
    /\ nToken = 0
    /\ \E v \in Priors(typ) : Decoded(v, DecodeOp(data, lex, typ, v))
    /\ nDecode' = nDecode + 1
    /\ UNCHANGED <<typ, src, mut, data, pc, tok, escaped, nToken>>

\* A call of Token has returned r.
Tokened(r) ==
    /\ tok' = r.tok
    /\ err' = r.err
    /\ escaped' = r.panic
    /\ lex' = r.pos

\* d.Token().
Token ==
    /\ pc = "decoder"
    /\ MoreCalls
    /\ nDecode = 0
    /\ Tokened(TokenOp(data, lex))
    /\ nToken' = nToken + 1
    /\ UNCHANGED <<typ, src, mut, data, pc, before, out, ret, nDecode>>

Next == Unmarshal \/ NewDecoder \/ Decode \/ Token

Spec == Init /\ [][Next]_vars

\* ------------------------------------------------------------------ claims

\* A decode call (Unmarshal, or Decoder.Decode) has returned.
DecodeCalled == pc = "unmarshal" \/ nDecode >= 1

RECURSIVE Val(_, _)
RECURSIVE LastOf(_, _, _)
\* The value of the last entry of es that the test Is holds of, d if none.
LastOf(es, Is(_), d) ==
    IF Len(es) = 0 THEN d
    ELSE IF Is(es[Len(es)]) THEN es[Len(es)]
    ELSE LastOf(SubSeq(es, 1, Len(es) - 1), Is, d)

\* The value a source of shape T stands for, in a destination that held the
\* zero value: what decoding its encoding is meant to give.
Val(T, s) ==
    CASE T.k \in ScalarKinds -> s
      [] T.k = "slice" -> [i \in 1..Len(s) |-> Val(T.elem, s[i])]
      [] T.k = "array" ->
            [i \in 1..T.n |-> IF i <= Len(s) THEN Val(T.elem, s[i]) ELSE Zero(T.elem)]
      [] T.k = "struct" ->
            [f \in {T.names[i] : i \in 1..Len(T.names)} |->
                IF \E i \in 1..Len(s) : s[i].name = f
                THEN LET Is(e) == e.name = f
                     IN  Val(T.ftype[f], LastOf(s, Is, s[1]).s)
                ELSE Zero(T.ftype[f])]
      [] T.k = "map" ->
            [x \in {Val(T.key, s[i].key) : i \in 1..Len(s)} |->
                LET Is(e) == Val(T.key, e.key) = x
                IN  Val(T.elem, LastOf(s, Is, s[1]).s)]
      [] OTHER -> [dtyp |-> s.dtyp, dval |-> Val(s.dtyp, s.s)]

\* C1: on a fresh Decoder over a stream of n >= 2 well-formed values, each of
\* the destination's shape, the k-th of n consecutive calls of Decode succeeds
\* and fills its (zero) destination with the k-th value.
C1_SequentialDecode ==
    (/\ pc = "decoder"
     /\ nDecode >= 1
     /\ mut.kind = "none"
     /\ Len(src) >= 2
     /\ nDecode <= Len(src)
     /\ before = Zero(typ))
    => (err = NoError /\ out = Val(typ, src[nDecode]))

\* The streams of C2: identifiers, strings, integers, '(' and ')' only.
OnlyListTokens(toks) ==
    \A i \in 1..Len(toks) : toks[i].kind \in {"Ident", "String", "Int", "(", ")"}

\* The Token variant that stands for a token kind.
VariantOf(kind) ==
    CASE kind = "Ident" -> "Symbol"
      [] kind = "String" -> "String"
      [] kind = "Int" -> "Int"
      [] kind = "(" -> "StartList"
      [] OTHER -> "EndList"

\* C2: on a fresh Decoder over a stream of identifiers, strings, integers, '('
\* and ')', the k-th call of Token returns the variant of the k-th token of the
\* stream, and every call after the last token returns the end-of-stream error.
C2_TokenOrder ==
    (pc = "decoder" /\ nToken >= 1 /\ OnlyListTokens(data))
    => IF nToken <= Len(data)
       THEN /\ err = NoError
            /\ escaped = ""
            /\ tok.variant = VariantOf(data[nToken].kind)
            /\ lex = nToken
       ELSE /\ err.msg = "EOF"
            /\ escaped = ""
            /\ tok = NoToken

\* C2's case: a stream that holds all five kinds of token has been read to its
\* end by Token, and one more call has returned the end-of-stream error.
C2_Witness ==
    /\ pc = "decoder"
    /\ nToken = Len(data) + 1
    /\ OnlyListTokens(data)
    /\ \A kd \in {"Ident", "String", "Int", "(", ")"} :
          \E i \in 1..Len(data) : data[i].kind = kd
    /\ err.msg = "EOF"

\* C3: for a destination that accepts a list, a stream that ends while the
\* list opened by its first '(' is not closed makes Unmarshal return an error.
C3_NoSilentTruncation ==
    (/\ pc = "unmarshal"
     /\ typ.k \in ListKinds
     /\ mut.kind = "cut"
     /\ mut.i >= 1)
    => err # NoError

\* C4 as stated: whenever a decode call returns an error, the destination
\* holds the value it held before the call.
C4_Atomic == (DecodeCalled /\ err # NoError) => out = before

\* C4, amended: whenever a decode call returns an error, the destination holds
\* the value it held before the call if it is a scalar or a dynamic slot, or if
\* no write was made before the failure; an array, a sequence, a record or a
\* map keeps the writes made before the failure.
C4_AtomicScalarOrDynamic ==
    (DecodeCalled /\ err # NoError /\ (typ.k \in ScalarKinds \cup {"iface"} \/ ret.w = 0))
    => out = before

\* C4's case: a decode into a dynamic slot that held a value has failed after
\* part of the new value was read.
C4_Witness ==
    /\ DecodeCalled
    /\ err # NoError
    /\ typ.k = "iface"
    /\ ret.w >= 1
    /\ before = Held(typ)
    /\ out = before

\* The fatal conditions of a decode call.
FatalMsgs ==
    {"unexpected token", "got, want", "want field name", "end of file",
     "cannot decode list", "asType", "reflect", "index out of range"}

\* C5: a decode call returns an error exactly when a fatal condition was
\* raised; the call ends where the condition was raised: the lexer has scanned
\* no further token and no further write was made.
C5_AbortOnFatal ==
    DecodeCalled =>
        /\ (err # NoError) <=> (ret.panic # "")
        /\ err # NoError =>
              /\ err.msg \in FatalMsgs
              /\ ret.panic = err.msg
              /\ lex = ret.at
              /\ err.position = ret.at
              /\ ret.w = ret.wat

\* C5's case: a decode into a sequence was aborted after an element had been
\* appended, with tokens of the stream left unread.
C5_Witness ==
    /\ DecodeCalled
    /\ typ.k = "slice"
    /\ err # NoError
    /\ ret.w >= 2
    /\ lex < Len(data)

\* The source s of shape T is a value of that shape in full: a fixed array has
\* as many elements as its length.
WellFormedSrc(T, s) == T.k = "array" => Len(s) = T.n

\* C6: for a dynamic slot and an input ("D" E), D a valid descriptor and E a
\* well-formed encoding of a value of D's shape, Unmarshal succeeds and the
\* slot holds a value of shape D, equal to what decoding E alone into a fresh
\* destination of that shape gives.
C6_DynamicSlot ==
    (/\ pc = "unmarshal"
     /\ typ.k = "iface"
     /\ mut.kind = "none"
     /\ WellFormedSrc(src[1].dtyp, src[1].s))
    => /\ err = NoError
       /\ out.dtyp = src[1].dtyp
       /\ out.dval = UnmarshalOp(Enc(src[1].dtyp, src[1].s), src[1].dtyp,
                                 Zero(src[1].dtyp)).out

\* The stream holds, at place i, an entry "(name ..." whose name is no field
\* of the record T.
UnknownEntryAt(toks, T, i) ==
    /\ i >= 2
    /\ i + 1 <= Len(toks)
    /\ toks[i].kind = "("
    /\ toks[i + 1].kind = "Ident"
    /\ \A j \in 1..Len(T.names) : T.names[j] # toks[i + 1].text

\* C7: when a record is decoded from a list that holds an entry whose name is
\* no field of the record, Unmarshal returns an error.
C7_UnknownField ==
    (/\ pc = "unmarshal"
     /\ typ.k = "struct"
     /\ Len(data) >= 1
     /\ data[1].kind = "("
     /\ \E i \in 1..Len(data) : UnknownEntryAt(data, typ, i))
    => err # NoError

\* C7's case: the decode of a record has reached an entry of unknown name,
\* after a known one was written, and has failed on it.
C7_Witness ==
    /\ pc = "unmarshal"
    /\ typ.k = "struct"
    /\ Len(data) >= 1
    /\ data[1].kind = "("
    /\ \E i \in 1..Len(data) : UnknownEntryAt(data, typ, i) /\ ret.at = i + 2
    /\ ret.w >= 1
    /\ ret.panic = "reflect"

\* C8: after a successful decode of a list of n elements into a sequence, the
\* destination holds exactly those n elements in input order, whatever it held
\* before the call.
C8_SequenceOrder ==
    (pc = "unmarshal" /\ typ.k = "slice" /\ mut.kind = "none" /\ err = NoError)
    => out = Val(typ, src[1])

\* The pairings of a first token and a destination shape that C9 accepts.
Accepts(tk, T) ==
    \/ tk.kind = "String" /\ T.k = "string"
    \/ tk.kind = "Int" /\ T.k = "int"
    \/ tk.kind = "Float" /\ T.k = "float"
    \/ tk.kind = "Ident" /\ tk.text = T_t /\ T.k = "bool"
    \/ tk.kind = "(" /\ T.k \in ListKinds

RECURSIVE HasShape(_, _)
\* The value v is of shape T.
HasShape(T, v) ==
    CASE T.k \in {"int", "uint"} -> v \in Int
      [] T.k = "float" -> DOMAIN v = {"num", "den"}
      [] T.k = "bool" -> v \in BOOLEAN
      [] T.k = "string" -> DOMAIN v = 1..Len(v)
      [] T.k = "array" -> DOMAIN v = 1..T.n /\ \A i \in 1..T.n : HasShape(T.elem, v[i])
      [] T.k = "slice" -> \A i \in 1..Len(v) : HasShape(T.elem, v[i])
      [] T.k = "struct" ->
            /\ DOMAIN v = {T.names[i] : i \in 1..Len(T.names)}
            /\ \A f \in DOMAIN v : HasShape(T.ftype[f], v[f])
      [] T.k = "map" ->
            \A x \in DOMAIN v : HasShape(T.key, x) /\ HasShape(T.elem, v[x])
      [] OTHER -> v = NilIface \/ HasShape(v.dtyp, v.dval)

\* The first decode call on the stream has returned.
FirstDecode == pc = "unmarshal" \/ nDecode = 1

\* C9 as stated: a decode succeeds only when its first token and the
\* destination's shape are one of the accepted pairings.
C9_Conform ==
    (FirstDecode /\ err = NoError) => (Len(data) >= 1 /\ Accepts(data[1], typ))

\* C9, amended: a decode succeeds only when its first token and the
\* destination's shape are an accepted pairing (string token and string, int
\* token and int, float token and float, t and bool, '(' and a fixed array,
\* sequence, record, map or dynamic slot) or the token is the identifier nil,
\* which every shape accepts; the destination keeps its declared shape.
C9_ConformOrNil ==
    FirstDecode =>
        /\ err = NoError =>
              /\ Len(data) >= 1
              /\ Accepts(data[1], typ) \/ data[1] = Ident(T_nil)
        /\ HasShape(typ, out)

\* C9's case: the identifier nil has been decoded into a destination that
\* accepts lists and held a value, and has left its zero value there.
C9_Witness ==
    /\ FirstDecode
    /\ err = NoError
    /\ Len(data) >= 1
    /\ data[1] = Ident(T_nil)
    /\ typ.k = "map"
    /\ before = Held(typ)
    /\ out = Zero(typ)

\* The permutations of 1..n.
Perms(n) == {p \in [1..n -> 1..n] : \A i, j \in 1..n : i # j => p[i] # p[j]}

\* The entries es name pairwise distinct fields.
DistinctNames(es) == \A i, j \in 1..Len(es) : i # j => es[i].name # es[j].name

\* C10: for a record that held its zero value and a list of entries with
\* pairwise distinct field names, every permutation of the entries decodes to
\* the same record.
C10_OrderIndependent ==
    (/\ pc = "unmarshal"
     /\ typ.k = "struct"
     /\ mut.kind = "none"
     /\ before = Zero(typ)
     /\ DistinctNames(src[1]))
    => \A p \in Perms(Len(src[1])) :
          /\ err = NoError
          /\ UnmarshalOp(Enc(typ, [i \in 1..Len(src[1]) |-> src[1][p[i]]]), typ,
                         Zero(typ)).err = NoError
          /\ UnmarshalOp(Enc(typ, [i \in 1..Len(src[1]) |-> src[1][p[i]]]), typ,
                         Zero(typ)).out = out

\* C10's case: a record has been decoded from two entries that set its two
\* fields to different values.
C10_Witness ==
    /\ pc = "unmarshal"
    /\ typ.k = "struct"
    /\ mut.kind = "none"
    /\ before = Zero(typ)
    /\ Len(src[1]) >= 2
    /\ DistinctNames(src[1])
    /\ err = NoError
    /\ out[F_X] # out[F_Y]
    /\ out[F_X] # 0
    /\ out[F_Y] # 0

\* C11: the identifier nil at the value position sets the destination to the
\* zero value of its shape, whatever it held and whatever its shape; t sets a
\* boolean destination to true; each moves the lexer by that one token; any
\* other identifier there makes the call return an error.
C11_LiteralIdents ==
    (FirstDecode /\ Len(data) >= 1 /\ data[1].kind = "Ident")
    => CASE data[1].text = T_nil -> err = NoError /\ out = Zero(typ) /\ lex = 2
         [] data[1].text = T_t /\ typ.k = "bool" -> err = NoError /\ out = TRUE /\ lex = 2
         [] data[1].text = T_t -> TRUE
         [] OTHER -> err.msg = "unexpected token" /\ out = before /\ lex = 1

\* C11's case: nil has been decoded into a record that held a value and is
\* followed by more tokens.
C11_Witness ==
    /\ FirstDecode
    /\ Len(data) >= 2
    /\ data[1] = Ident(T_nil)
    /\ typ.k = "struct"
    /\ before = Held(typ)
    /\ out = Zero(typ)
    /\ lex = 2

RECURSIVE Depth(_, _)
\* The '(' not yet closed after the first n tokens of a stream.
Depth(toks, n) ==
    IF n = 0 THEN 0
    ELSE Depth(toks, n - 1)
         + (CASE toks[n].kind = "(" -> 1 [] toks[n].kind = ")" -> -1 [] OTHER -> 0)

\* The place of the ')' that matches the '(' a stream starts with, 0 if none.
MatchOf(toks) ==
    IF \E n \in 1..Len(toks) : Depth(toks, n) = 0
    THEN CHOOSE n \in 1..Len(toks) :
            Depth(toks, n) = 0 /\ \A m \in 1..(n - 1) : Depth(toks, m) # 0
    ELSE 0

\* C12: for every destination shape, a successful decode of a stream that
\* starts with '(' has consumed the tokens up to the ')' that matches it and
\* leaves the lexer on the token right after that ')'.
C12_MatchingClose ==
    (/\ pc = "unmarshal"
     /\ err = NoError
     /\ Len(data) >= 1
     /\ data[1].kind = "("
     /\ MatchOf(data) > 0)
    => lex = MatchOf(data) + 1

\* The entries es name the field f more than once.
NamedTwice(es, f) == \E i, j \in 1..Len(es) : i # j /\ es[i].name = f /\ es[j].name = f

\* The source of the last entry of es that names the field f.
LastEntry(es, f) ==
    es[CHOOSE i \in 1..Len(es) : es[i].name = f /\ \A j \in (i + 1)..Len(es) : es[j].name # f].s

\* C13: when the input of a record that held its zero value names a field in
\* two entries, after a successful decode the field holds what decoding the
\* later entry alone into a fresh field gives, whatever the field's shape.
C13_LastWriteWins ==
    (/\ pc = "unmarshal"
     /\ typ.k = "struct"
     /\ mut.kind = "none"
     /\ before = Zero(typ)
     /\ err = NoError)
    => \A i \in 1..Len(typ.names) :
          NamedTwice(src[1], typ.names[i])
          => out[typ.names[i]] =
                UnmarshalOp(Enc(typ.ftype[typ.names[i]], LastEntry(src[1], typ.names[i])),
                            typ.ftype[typ.names[i]],
                            Zero(typ.ftype[typ.names[i]])).out

\* C14: for valid descriptors K and V, K with brackets of its own included,
\* the descriptor map[K]V decoded into a dynamic slot gives a map whose key
\* shape is the one K resolves to and whose element shape the one V resolves to.
C14_MapSplit ==
    (/\ pc = "unmarshal"
     /\ typ.k = "iface"
     /\ mut.kind = "none"
     /\ src[1].dtyp.k = "map"
     /\ asType(Desc(src[1].dtyp.key)).ok
     /\ asType(Desc(src[1].dtyp.elem)).ok)
    => /\ err = NoError
       /\ out.dtyp = MapOf(asType(Desc(src[1].dtyp.key)).t, asType(Desc(src[1].dtyp.elem)).t)

RECURSIVE WellFormedDesc(_)
\* The descriptor grammar: an atom, []T, [N]T with N decimal, map[K]V.
WellFormedDesc(d) ==
    \/ d \in {D_int, D_uint, D_float, D_bool, D_string}
    \/ HasPrefix(d, <<"[", "]">>) /\ WellFormedDesc(SubSeq(d, 3, Len(d)))
    \/ /\ Len(d) >= 1
       /\ d[1] = "["
       /\ \E j \in 3..Len(d) :
             /\ d[j] = "]"
             /\ AllDigits(SubSeq(d, 2, j - 1))
             /\ WellFormedDesc(SubSeq(d, j + 1, Len(d)))
    \/ /\ HasPrefix(d, D_map \o <<"[">>)
       /\ \E j \in 5..Len(d) :
             /\ d[j] = "]"
             /\ WellFormedDesc(SubSeq(d, 5, j - 1))
             /\ WellFormedDesc(SubSeq(d, j + 1, Len(d)))

\* C15: a descriptor outside the grammar makes the decode into a dynamic slot
\* return an error and leaves the slot as it was.
C15_OnlyWellFormed ==
    (/\ pc = "unmarshal"
     /\ typ.k = "iface"
     /\ Len(data) >= 2
     /\ data[1].kind = "("
     /\ data[2].kind = "String"
     /\ ~WellFormedDesc(Unquote(data[2].text)))
    => err # NoError /\ out = before

C17_MapReplaces ==
    (pc = "unmarshal" /\ typ.k = "map" /\ mut.kind = "none")
    => /\ err = NoError
       /\ DOMAIN out = {Val(typ.key, src[1][i].key) : i \in 1..Len(src[1])}
       /\ \A i \in 1..Len(src[1]) :
             (\A j \in (i + 1)..Len(src[1]) : src[1][j].key # src[1][i].key)
             => out[Val(typ.key, src[1][i].key)] = Val(typ.elem, src[1][i].s)

\* C17's case: a map that held an entry has been decoded from two entries of
\* one key with different values.
C17_Witness ==
    /\ pc = "unmarshal"
    /\ typ.k = "map"
    /\ mut.kind = "none"
    /\ before = Held(typ)
    /\ Len(src[1]) = 2
    /\ src[1][1].key = src[1][2].key
    /\ src[1][1].s # src[1][2].s
    /\ err = NoError
    /\ DOMAIN out = {src[1][2].key}
    /\ out[src[1][2].key] = src[1][2].s

\* C18: when the token a call of Token scans is none of identifier, string,
\* integer, '(', ')' or the end of the stream, the call returns the error
\* "unexpected token" to its caller, and no panic leaves it.
C18_TokenError ==
    (/\ pc = "decoder"
     /\ nToken >= 1
     /\ nToken <= Len(data)
     /\ data[nToken].kind \in {"Float", "Other"})
    => /\ escaped = ""
       /\ err.msg = "unexpected token"

RECURSIVE Parts(_)
\* The shape T and the shapes of its elements, keys and fields.
Parts(T) ==
    {T} \cup
    (CASE T.k \in {"array", "slice"} -> Parts(T.elem)
       [] T.k = "map" -> Parts(T.key) \cup Parts(T.elem)
       [] T.k = "struct" -> UNION {Parts(T.ftype[T.names[i]]) : i \in 1..Len(T.names)}
       [] OTHER -> {})

\* A call entered with the lexer at pos has scanned at least one token or has
\* raised a fatal condition.
Progress(r, pos) == r.panic # "" \/ r.pos > pos

\* C19: every call of read, and every iteration of a list loop of readList,
\* scans at least one token or raises a fatal condition, wherever in the
\* stream it starts and whatever shape it reads into; at the end of the
\* stream an open list raises the end-of-input error; so Unmarshal returns on
\* every stream, with the lexer no further than the end of the stream.
C19_Terminates ==
    /\ pc = "start" =>
          \A T \in Parts(typ) : \A p \in 1..(Len(data) + 1) :
             /\ Progress(read(data, p, 0, T, Zero(T)), p)
             /\ (T.k = "struct" /\ endList(data, p) = "more")
                => Progress(readField(data, p, 0, T, Zero(T)), p)
             /\ (T.k = "map" /\ endList(data, p) = "more")
                => Progress(readEntry(data, p, 0, T, Zero(T)), p)
             /\ (T.k \in {"array", "slice", "struct", "map"} /\ p = Len(data) + 1)
                => readList(data, p, 0, T, Zero(T)).panic = "end of file"
    /\ DecodeCalled =>
          /\ lex <= Len(data) + 1
          /\ err = NoError => lex >= 2

\* C19's case: Unmarshal has read a sequence whose stream ends after an
\* element, has scanned every token and has returned the end-of-input error.
C19_Witness ==
    /\ pc = "unmarshal"
    /\ typ.k = "slice"
    /\ mut.kind = "cut"
    /\ mut.i >= 2
    /\ ret.w >= 1
    /\ err.msg = "end of file"
    /\ lex = Len(data) + 1

====
